---- MODULE Spec2Model ----
(***************************************************************************)
(* Model of the Anthropic <-> Azure "responses" proxy:                     *)
(*   src/src/converters.ts  anthropicToAzureRequest, azureToAnthropicResponse *)
(*   src/src/server.ts      app.post('/v1/messages'), streamAnthropicResponse *)
(*                                                                         *)
(* JavaScript values are tagged records (field k is the typeof / kind), so *)
(* that the code's dynamic checks (typeof, Array.isArray, truthiness, ??)  *)
(* are computed rather than assumed.  Strings are TLA+ strings; they are   *)
(* concatenated with \o and inspected with Head/Tail/SubSeq/Len.           *)
(***************************************************************************)
EXTENDS Integers, Sequences, FiniteSets, TLC

(***************************************************************************)
(* JavaScript values                                                       *)
(***************************************************************************)
Undefined == [k |-> "undefined"]
Null == [k |-> "null"]
Str(s) == [k |-> "string", s |-> s]
Num(n) == [k |-> "number", n |-> n]
Bool(b) == [k |-> "boolean", b |-> b]
Arr(a) == [k |-> "array", a |-> a]
\* An object is its list of <<key, value>> properties, in insertion order.
Obj(p) == [k |-> "object", p |-> p]

IsString(v) == v.k = "string"
IsArray(v) == v.k = "array"
IsObject(v) == v.k = "object"
\* x === null || x === undefined : the test behind ?? and ?.
IsNullish(v) == v.k \in {"undefined", "null"}

\* ToBoolean: if (x), !x, x ? a : b
Truthy(v) ==
    CASE v.k = "undefined" -> FALSE
      [] v.k = "null" -> FALSE
      [] v.k = "string" -> v.s # ""
      [] v.k = "number" -> v.n # 0
      [] v.k = "boolean" -> v.b
      [] OTHER -> TRUE

\* a ?? b
Coalesce(a, b) == IF IsNullish(a) THEN b ELSE a

\* o.key for an object o (undefined when the property is missing); o?.key
\* gives undefined for a nullish o; a property of a primitive is undefined.
Get(o, key) ==
    IF IsObject(o) /\ \E i \in 1..Len(o.p) : o.p[i][1] = key
    THEN o.p[CHOOSE i \in 1..Len(o.p) : o.p[i][1] = key][2]
    ELSE Undefined

\* 'key' in o, for a body that came out of JSON.parse (a JSON object has no
\* property whose value is undefined).
HasKey(o, key) == IsObject(o) /\ \E i \in 1..Len(o.p) : o.p[i][1] = key

(***************************************************************************)
(* String helpers: String.prototype.trim, String(number), Array.join('')   *)
(***************************************************************************)
WhiteSpace == {" ", "\t", "\n", "\r"}

RECURSIVE TrimStart(_)
TrimStart(s) ==
    IF s = "" THEN ""
    ELSE IF Head(s) \in WhiteSpace THEN TrimStart(Tail(s)) ELSE s

RECURSIVE TrimEnd(_)
TrimEnd(s) ==
    IF s = "" THEN ""
    ELSE IF SubSeq(s, Len(s), Len(s)) \in WhiteSpace
         THEN TrimEnd(SubSeq(s, 1, Len(s) - 1))
         ELSE s

Trim(s) == TrimEnd(TrimStart(s))

Digit(d) == SubSeq("0123456789", d + 1, d + 1)

RECURSIVE NumToString(_)
NumToString(n) ==
    IF n < 0 THEN "-" \o NumToString(0 - n)
    ELSE IF n < 10 THEN Digit(n)
    ELSE NumToString(n \div 10) \o Digit(n % 10)

\* strs.join('') for a sequence of strings
RECURSIVE Join(_)
Join(strs) == IF strs = <<>> THEN "" ELSE Head(strs) \o Join(Tail(strs))

(***************************************************************************)
(* JSON.stringify.  The strings of the model hold no character that        *)
(* JSON.stringify escapes (quote, backslash, control characters), so a     *)
(* string is encoded by putting it between quotes.                         *)
(***************************************************************************)
Quote(s) == "\"" \o s \o "\""

RECURSIVE JSONstringify(_)
RECURSIVE StringifyElems(_)
RECURSIVE StringifyProps(_, _)

\* the elements of an array: undefined is written null
StringifyElems(a) ==
    IF a = <<>> THEN ""
    ELSE (IF Head(a).k = "undefined" THEN "null" ELSE JSONstringify(Head(a)))
         \o (IF Len(a) > 1 THEN "," ELSE "")
         \o StringifyElems(Tail(a))

\* the properties of an object: a property whose value is undefined is left out
StringifyProps(p, first) ==
    IF p = <<>> THEN ""
    ELSE IF Head(p)[2].k = "undefined" THEN StringifyProps(Tail(p), first)
    ELSE (IF first THEN "" ELSE ",")
         \o Quote(Head(p)[1]) \o ":" \o JSONstringify(Head(p)[2])
         \o StringifyProps(Tail(p), FALSE)

JSONstringify(v) ==
    CASE v.k = "string" -> Quote(v.s)
      [] v.k = "number" -> NumToString(v.n)
      [] v.k = "boolean" -> IF v.b THEN "true" ELSE "false"
      [] v.k = "null" -> "null"
      [] v.k = "array" -> "[" \o StringifyElems(v.a) \o "]"
      [] v.k = "object" -> "{" \o StringifyProps(v.p, TRUE) \o "}"

(***************************************************************************)
(* converters.ts: shared helpers                                           *)
(***************************************************************************)
RECURSIVE normalizeToString(_)
RECURSIVE normalizeAll(_)
normalizeAll(a) ==
    IF a = <<>> THEN "" ELSE normalizeToString(Head(a)) \o normalizeAll(Tail(a))

normalizeToString(value) ==
    CASE value.k = "string" -> value.s
      [] value.k \in {"null", "undefined"} -> ""
      [] value.k = "array" -> normalizeAll(value.a)
      [] value.k = "object" -> JSONstringify(value)
      [] value.k = "number" -> NumToString(value.n)
      [] value.k = "boolean" -> IF value.b THEN "true" ELSE "false"

\* A function that can throw returns Ok(value) or Throw(message).
Ok(v) == [ok |-> TRUE, value |-> v]
Throw(m) == [ok |-> FALSE, error |-> m]

ErrContentShape == "Message content must be a string or an array of content blocks"
ErrBlockFormat == "Unsupported content block format"
ErrBlockType == "Unsupported content block type"
ErrToolUse == "tool_use block must include id and name"
ErrToolResult == "tool_result block must include tool_use_id"
ErrEmptyMessages == "Anthropic request must include at least one message"
ErrNoModel == "No model specified in request or config"

\* Normalised content blocks (AnthropicContentBlock)
TextBlock(t) == [type |-> "text", text |-> t]
ToolUseBlock(id, name, input) ==
    [type |-> "tool_use", id |-> id, name |-> name, input |-> input]
ToolResultBlock(id, content, text, isError, status) ==
    [type |-> "tool_result", tool_use_id |-> id, content |-> content,
     text |-> text, is_error |-> isError, status |-> status]

\* The callback of content.map in normalizeMessageContent, for one item.
normalizeItem(item) ==
    IF IsString(item) THEN Ok(TextBlock(normalizeToString(item)))
    ELSE IF ~Truthy(item) \/ ~IsObject(item) \/ ~HasKey(item, "type")
    THEN Throw(ErrBlockFormat)
    ELSE LET type == Get(item, "type") IN
         IF type = Str("text")
         THEN Ok(TextBlock(normalizeToString(Get(item, "text"))))
         ELSE IF type = Str("tool_use")
         THEN IF ~HasKey(item, "id") \/ ~HasKey(item, "name")
              THEN Throw(ErrToolUse)
              ELSE Ok(ToolUseBlock(Get(item, "id"), Get(item, "name"),
                                   Coalesce(Get(item, "input"), Obj(<<>>))))
         ELSE IF type = Str("tool_result")
         THEN IF ~HasKey(item, "tool_use_id")
              THEN Throw(ErrToolResult)
              ELSE Ok(ToolResultBlock(Get(item, "tool_use_id"),
                                      Get(item, "content"), Get(item, "text"),
                                      Get(item, "is_error"), Get(item, "status")))
         ELSE Throw(ErrBlockType)

\* content.map(...): the first item that throws ends the map with its error.
RECURSIVE normalizeItems(_)
normalizeItems(items) ==
    IF items = <<>> THEN Ok(<<>>)
    ELSE LET h == normalizeItem(Head(items)) IN
         IF ~h.ok THEN h
         ELSE LET t == normalizeItems(Tail(items)) IN
              IF ~t.ok THEN t ELSE Ok(<<h.value>> \o t.value)

normalizeMessageContent(content) ==
    IF IsString(content) THEN Ok(<<TextBlock(normalizeToString(content))>>)
    ELSE IF ~IsArray(content) THEN Throw(ErrContentShape)
    ELSE normalizeItems(content.a)

\* block.content.map((part) => normalizeToString(part.text)).join('')
RECURSIVE joinPartTexts(_)
joinPartTexts(parts) ==
    IF parts = <<>> THEN ""
    ELSE normalizeToString(Get(Head(parts), "text")) \o joinPartTexts(Tail(parts))

\* const payload = {}; the three conditional assignments of lines 278-286
toolResultPayload(block) ==
    (IF block.content # Undefined THEN << <<"content", block.content>> >> ELSE <<>>)
    \o (IF block.is_error # Undefined THEN << <<"is_error", block.is_error>> >> ELSE <<>>)
    \o (IF block.status # Undefined THEN << <<"status", block.status>> >> ELSE <<>>)

\* Mutant: a string `text` wins over an array `content`.
serializeToolResultOutputTextFirst(block) ==
    IF IsString(block.content) THEN block.content.s
    ELSE IF IsString(block.text) THEN block.text.s
    ELSE IF IsArray(block.content) THEN joinPartTexts(block.content.a)
    ELSE JSONstringify(Obj(<< <<"tool_use_id", block.tool_use_id>> >>
                           \o toolResultPayload(block)))

serializeToolResultOutput(block) ==
    IF IsString(block.content) THEN block.content.s
    ELSE IF IsArray(block.content) THEN joinPartTexts(block.content.a)
    ELSE IF IsString(block.text) THEN block.text.s
    ELSE JSONstringify(Obj(<< <<"tool_use_id", block.tool_use_id>> >>
                           \o toolResultPayload(block)))

(***************************************************************************)
(* converters.ts: anthropicToAzureRequest                                  *)
(* The copy-through fields (temperature, top_p, stop, max_output_tokens,   *)
(* metadata, tools, tool_choice) are written after the model is resolved   *)
(* and read nothing of input, model or reasoning; they are left out.       *)
(***************************************************************************)
\* AzureInputItem
MessageItem(role, contentType, text) ==
    [type |-> "message", role |-> role,
     content |-> <<[type |-> contentType, text |-> text]>>]
FunctionCallItem(callId, name, arguments) ==
    [type |-> "function_call", call_id |-> callId, name |-> name,
     arguments |-> arguments]
FunctionCallOutputItem(callId, output) ==
    [type |-> "function_call_output", call_id |-> callId, output |-> output]

\* role === 'assistant' ? 'output_text' : 'input_text'
contentTypeOf(role) == IF role = Str("assistant") THEN "output_text" ELSE "input_text"

\* Mutant: the accumulated texts are pushed as one item each.
flushTextUnmerged(role, textAccumulator, input) ==
    input \o [i \in 1..Len(textAccumulator) |->
                MessageItem(role, contentTypeOf(role), textAccumulator[i])]

\* flushText: pushes one message item for a non-empty accumulator
flushText(role, textAccumulator, input) ==
    IF Len(textAccumulator) = 0 THEN input
    ELSE Append(input, MessageItem(role, contentTypeOf(role), Join(textAccumulator)))

\* One iteration of `for (const block of blocks)`: the state is the pair
\* [acc |-> textAccumulator, input |-> input].
blockStep(role, st, block) ==
    CASE block.type = "text" ->
            [acc |-> Append(st.acc, block.text), input |-> st.input]
      [] block.type = "tool_use" ->
            [acc |-> <<>>,
             input |-> Append(flushText(role, st.acc, st.input),
                              FunctionCallItem(block.id, block.name,
                                  JSONstringify(Coalesce(block.input, Obj(<<>>)))))]
      [] block.type = "tool_result" ->
            [acc |-> <<>>,
             input |-> Append(flushText(role, st.acc, st.input),
                              FunctionCallOutputItem(block.tool_use_id,
                                  serializeToolResultOutput(block)))]

RECURSIVE walkBlocks(_, _, _)
walkBlocks(role, st, blocks) ==
    IF blocks = <<>> THEN st
    ELSE walkBlocks(role, blockStep(role, st, Head(blocks)), Tail(blocks))

\* The body of `for (const message of body.messages)` for one message:
\* normalise, walk the blocks, flush what is left.
translateMessage(message, input) ==
    LET blocks == normalizeMessageContent(Get(message, "content")) IN
    IF ~blocks.ok THEN blocks
    ELSE LET role == Get(message, "role")
             st == walkBlocks(role, [acc |-> <<>>, input |-> input], blocks.value)
         IN  Ok(flushText(role, st.acc, st.input))

RECURSIVE translateMessages(_, _)
translateMessages(messages, input) ==
    IF messages = <<>> THEN Ok(input)
    ELSE LET r == translateMessage(Head(messages), input) IN
         IF ~r.ok THEN r ELSE translateMessages(Tail(messages), r.value)

\* if (body.system) input.push({type:'message', role:'system', ...})
systemItems(body) ==
    IF Truthy(Get(body, "system"))
    THEN <<MessageItem(Str("system"), "input_text",
                       normalizeToString(Get(body, "system")))>>
    ELSE <<>>

\* Mutant: the model is not trimmed before it is tested.
resolveModelUntrimmed(body, fallbackModel) ==
    LET m == Get(body, "model") IN
    Coalesce(IF IsString(m) /\ Len(m.s) > 0 THEN m ELSE fallbackModel, Str(""))

\* (typeof body.model === 'string' && body.model.trim().length > 0
\*     ? body.model : fallbackModel) ?? ''
resolveModel(body, fallbackModel) ==
    LET m == Get(body, "model") IN
    Coalesce(IF IsString(m) /\ Len(Trim(m.s)) > 0 THEN m ELSE fallbackModel,
             Str(""))

\* body.reasoning?.effort ?? options?.defaultReasoningEffort
resolveReasoningEffort(body, options) ==
    Coalesce(Get(Get(body, "reasoning"), "effort"),
             Get(options, "defaultReasoningEffort"))

\* azureRequest.reasoning: set only for a string that is non-empty once trimmed
reasoningField(reasoningEffort) ==
    IF IsString(reasoningEffort) /\ Len(Trim(reasoningEffort.s)) > 0
    THEN Obj(<< <<"effort", reasoningEffort>> >>)
    ELSE Undefined

anthropicToAzureRequest(body, fallbackModel, options) ==
    LET messages == Get(body, "messages") IN
    IF ~IsArray(messages) \/ Len(messages.a) = 0 THEN Throw(ErrEmptyMessages)
    ELSE LET input == translateMessages(messages.a, systemItems(body)) IN
         IF ~input.ok THEN input
         ELSE LET requestedModel == resolveModel(body, fallbackModel) IN
              IF ~Truthy(requestedModel) THEN Throw(ErrNoModel)
              ELSE Ok([model |-> requestedModel,
                       input |-> input.value,
                       reasoning |->
                           reasoningField(resolveReasoningEffort(body, options))])

(***************************************************************************)
(* converters.ts: safeJsonParse, mapStopReason, azureToAnthropicResponse   *)
(***************************************************************************)
\* The JSON values that the strings of the model encode.
JsonValues ==
    { Obj(<<>>), Obj(<< <<"q", Str("x")>> >>), Obj(<< <<"n", Num(1)>> >>),
      Arr(<<>>), Str("x"), Num(7), Bool(TRUE), Null }

\* JSON.parse: the value whose encoding the text is, or a SyntaxError.
JSONparse(text) ==
    IF \E v \in JsonValues : JSONstringify(v) = text
    THEN Ok(CHOOSE v \in JsonValues : JSONstringify(v) = text)
    ELSE Throw("SyntaxError")

\* Mutant: a text that does not parse gives null, not the fallback.
safeJsonParseNullOnError(value, fallback) ==
    IF ~Truthy(value) THEN fallback
    ELSE LET parsed == JSONparse(value.s) IN
         IF parsed.ok THEN parsed.value ELSE Null

safeJsonParse(value, fallback) ==
    IF ~Truthy(value) THEN fallback
    ELSE LET parsed == JSONparse(value.s) IN
         IF parsed.ok THEN parsed.value ELSE fallback

mapStopReason(responseStopReason, hasToolCall) ==
    IF Truthy(responseStopReason) THEN responseStopReason
    ELSE IF hasToolCall THEN Str("tool_use")
    ELSE Str("end_turn")

\* The loop state of azureToAnthropicResponse:
\*   [contentBlocks, stopReason, processedToolCallIds]
LoopStart ==
    [contentBlocks |-> <<>>, stopReason |-> Null, processedToolCallIds |-> {}]

\* for (const call of block.tool_calls ?? []) : one call
toolCallStep(st, call) ==
    LET callName == Coalesce(Get(call, "name"),
                             Coalesce(Get(Get(call, "function"), "name"), Str("tool")))
        callId == Coalesce(Get(call, "id"),
                           Coalesce(callName,
                                    Str("tool_" \o NumToString(Len(st.contentBlocks)))))
        arguments == Coalesce(Get(call, "arguments"),
                              Get(Get(call, "function"), "arguments"))
    IN  [st EXCEPT
           !.processedToolCallIds = @ \cup {callId},
           !.contentBlocks =
               Append(@, ToolUseBlock(callId, callName,
                                      safeJsonParse(arguments, Obj(<<>>))))]

RECURSIVE toolCallsLoop(_, _)
toolCallsLoop(st, calls) ==
    IF calls = <<>> THEN st
    ELSE toolCallsLoop(toolCallStep(st, Head(calls)), Tail(calls))

\* for (const block of message.content ?? []) : one block
contentBlockStep(st, block) ==
    IF ~Truthy(block) THEN st
    ELSE IF Get(block, "type") \in {Str("output_text"), Str("summary_text")}
    THEN [st EXCEPT !.contentBlocks =
                        Append(@, TextBlock(normalizeToString(Get(block, "text"))))]
    ELSE IF Get(block, "type") = Str("tool_calls")
    THEN toolCallsLoop(st, Coalesce(Get(block, "tool_calls"), Arr(<<>>)).a)
    ELSE st

RECURSIVE contentLoop(_, _)
contentLoop(st, blocks) ==
    IF blocks = <<>> THEN st
    ELSE contentLoop(contentBlockStep(st, Head(blocks)), Tail(blocks))

\* the branch item.type === 'message'
messageItemStep(st, message) ==
    LET after == contentLoop(st, Coalesce(Get(message, "content"), Arr(<<>>)).a) IN
    IF ~Truthy(after.stopReason)
    THEN [after EXCEPT !.stopReason =
              mapStopReason(Get(message, "stop_reason"),
                            Cardinality(after.processedToolCallIds) > 0)]
    ELSE after

\* the branch item.type === 'function_call'
functionCallItemStep(st, call) ==
    LET callName == Coalesce(Get(call, "name"), Str("tool"))
        callId == Coalesce(Get(call, "call_id"),
                  Coalesce(Get(call, "id"),
                  Coalesce(callName,
                           Str("tool_" \o NumToString(Cardinality(st.processedToolCallIds))))))
    IN  IF callId \in st.processedToolCallIds THEN st
        ELSE [st EXCEPT
                !.processedToolCallIds = @ \cup {callId},
                !.contentBlocks =
                    Append(@, ToolUseBlock(callId, callName,
                                  safeJsonParse(Get(call, "arguments"), Obj(<<>>)))),
                !.stopReason = IF ~Truthy(@) THEN Str("tool_use") ELSE @]

\* for (const item of data.output ?? []) : one item
outputItemStep(st, item) ==
    IF ~Truthy(item) THEN st
    ELSE IF Get(item, "type") = Str("message") THEN messageItemStep(st, item)
    ELSE IF Get(item, "type") = Str("function_call") THEN functionCallItemStep(st, item)
    ELSE st

RECURSIVE outputLoop(_, _)
outputLoop(st, items) ==
    IF items = <<>> THEN st
    ELSE outputLoop(outputItemStep(st, Head(items)), Tail(items))

\* Mutant: no fallback block is pushed.
withoutFallbackText(contentBlocks, data) == contentBlocks

\* if (contentBlocks.length === 0) contentBlocks.push({type:'text', text: data.output_text ?? ''})
withFallbackText(contentBlocks, data) ==
    IF Len(contentBlocks) = 0
    THEN <<TextBlock(Coalesce(Get(data, "output_text"), Str("")).s)>>
    ELSE contentBlocks

\* if (!stopReason) stopReason = 'end_turn'
withDefaultStop(stopReason) ==
    IF ~Truthy(stopReason) THEN Str("end_turn") ELSE stopReason

azureToAnthropicResponse(data, requestedModel) ==
    LET st == outputLoop(LoopStart, Coalesce(Get(data, "output"), Arr(<<>>)).a)
        usage == Coalesce(Get(data, "usage"), Obj(<<>>))
    IN  [id |-> Coalesce(Get(data, "id"), Str("proxy-response")),
         type |-> "message",
         role |-> "assistant",
         model |-> Coalesce(Get(data, "model"), requestedModel),
         content |-> withFallbackText(st.contentBlocks, data),
         stop_reason |-> withDefaultStop(st.stopReason),
         stop_sequence |-> Null,
         usage |-> [input_tokens |->
                        Coalesce(Get(usage, "input_tokens"),
                                 Coalesce(Get(usage, "prompt_tokens"), Num(0))),
                    output_tokens |->
                        Coalesce(Get(usage, "output_tokens"),
                                 Coalesce(Get(usage, "completion_tokens"), Num(0)))]]

(***************************************************************************)
(* Inputs: request bodies as they come out of express.json()               *)
(***************************************************************************)
\* An object literal: the properties given, without those that are absent.
Props(pairs) == Obj(SelectSeq(pairs, LAMBDA p : p[2] # Undefined))

TextItem(t) == Props(<< <<"type", Str("text")>>, <<"text", Str(t)>> >>)
ToolUseItem(id, name, input) ==
    Props(<< <<"type", Str("tool_use")>>, <<"id", id>>, <<"name", name>>,
             <<"input", input>> >>)
ToolResultItem(id, content, text, isError, status) ==
    Props(<< <<"type", Str("tool_result")>>, <<"tool_use_id", id>>,
             <<"content", content>>, <<"text", text>>,
             <<"is_error", isError>>, <<"status", status>> >>)
ImageItem == Props(<< <<"type", Str("image")>> >>)
Message(role, content) == Props(<< <<"role", role>>, <<"content", content>> >>)
Body(model, system, messages, reasoning, stream) ==
    Props(<< <<"model", model>>, <<"system", system>>, <<"messages", messages>>,
             <<"reasoning", reasoning>>, <<"stream", stream>> >>)

\* Bounds of the request structure
MaxMessages == 2
MaxBlocks == 3

Roles == {Str("user"), Str("assistant")}
LookupInput == Obj(<< <<"q", Str("x")>> >>)
BlockItems ==
    { TextItem("a"), TextItem("b"),
      ToolUseItem(Str("t1"), Str("lookup"), LookupInput),
      ToolResultItem(Str("t1"), Str("42"), Undefined, Undefined, Undefined) }

RECURSIVE Sum(_)
Sum(ns) == IF ns = <<>> THEN 0 ELSE Head(ns) + Sum(Tail(ns))

Hello == Arr(<<Message(Str("user"), Str("Hello"))>>)

\* The request whose i-th message has role roles[i] and holds the next
\* shape[i] blocks of `blocks`.
StructureBody(shape, roles, blocks) ==
    Body(Str("claude"), Undefined,
         Arr([i \in 1..Len(shape) |->
                Message(roles[i],
                        Arr(SubSeq(blocks, Sum(SubSeq(shape, 1, i - 1)) + 1,
                                   Sum(SubSeq(shape, 1, i)))))]),
         Undefined, Undefined)

\* Requests that differ in their system prompt
SystemBodies ==
    { Body(Str("claude"), system, messages, Undefined, Undefined) :
        system \in {Str(""), Str("Be brief")},
        messages \in
            { Hello,
              Arr(<<Message(Str("user"), Str(""))>>),
              Arr(<<Message(Str("assistant"),
                            Arr(<<TextItem("a"), TextItem("b")>>)),
                    Message(Str("user"), Arr(<<TextItem("a")>>))>>) } }

\* Requests holding one tool_result block, in every shape of its fields
FourTwo == Arr(<<TextItem("4"), TextItem("2")>>)
ToolResultItems ==
    { ToolResultItem(Str("t1"), content, text, isError, status) :
        content \in {Undefined, Str("r"), Str(""), FourTwo, Arr(<<>>), Null,
                     Obj(<< <<"code", Num(7)>> >>)},
        text \in {Undefined, Str("t")},
        isError \in {Undefined, Bool(TRUE), Bool(FALSE)},
        status \in {Undefined, Str("ok")} }
ToolResultBodies ==
    { Body(Str("claude"), Undefined,
           Arr(<<Message(Str("user"), Arr(<<item>>))>>), Undefined, Undefined) :
        item \in ToolResultItems }

\* Requests that differ in model and reasoning effort
Models == {Undefined, Null, Num(7), Str(""), Str("  "), Str("claude"), Str(" m ")}
Reasonings ==
    {Undefined, Obj(<<>>)}
    \cup { Obj(<< <<"effort", e>> >>) :
             e \in {Null, Num(3), Str(""), Str(" "), Str("low")} }
ConfigBodies ==
    { Body(model, Undefined, messages, reasoning, Undefined) :
        model \in Models, reasoning \in Reasonings,
        messages \in {Hello, Arr(<<>>)} }

\* Requests that the translation rejects
RejectedBodies ==
    { Body(Str("claude"), Undefined, messages, Undefined, Undefined) :
        messages \in { Undefined, Arr(<<>>),
                       Arr(<<Message(Str("user"), Arr(<<ImageItem>>))>>),
                       Arr(<<Message(Str("user"), Arr(<<Null>>))>>),
                       Arr(<<Message(Str("user"), Num(1))>>),
                       Arr(<<Message(Str("user"),
                             Arr(<<ToolUseItem(Undefined, Str("lookup"), Undefined)>>))>>),
                       Arr(<<Message(Str("user"),
                             Arr(<<ToolResultItem(Undefined, Str("r"), Undefined,
                                                  Undefined, Undefined)>>))>>) } }

\* loadCodexConfig: the configured model and model_reasoning_effort
DefaultConfig == [model |-> Str("gpt-5-codex"), reasoningEffort |-> Undefined]
ServerConfigs ==
    { [model |-> m, reasoningEffort |-> e] :
        m \in {Undefined, Str(""), Str("  "), Str("gpt-5-codex")},
        e \in {Undefined, Str(""), Str("high")} }

(***************************************************************************)
(* Inputs: upstream results (azureResponse.data)                           *)
(***************************************************************************)
OutputText(t) == Props(<< <<"type", Str("output_text")>>, <<"text", Str(t)>> >>)
ToolCalls(calls) ==
    Props(<< <<"type", Str("tool_calls")>>, <<"tool_calls", Arr(calls)>> >>)
ToolCall(id, name, arguments) ==
    Props(<< <<"id", id>>, <<"type", Str("function")>>, <<"name", name>>,
             <<"arguments", arguments>> >>)
OutputMessage(content, stopReason) ==
    Props(<< <<"type", Str("message")>>, <<"role", Str("assistant")>>,
             <<"content", Arr(content)>>, <<"stop_reason", stopReason>> >>)
FunctionCall(callId, id, name, arguments) ==
    Props(<< <<"type", Str("function_call")>>, <<"id", id>>,
             <<"call_id", callId>>, <<"name", name>>,
             <<"arguments", arguments>> >>)
UpstreamData(output, outputText) ==
    Props(<< <<"id", Str("resp_1")>>, <<"output", output>>,
             <<"output_text", outputText>>,
             <<"usage", Obj(<< <<"input_tokens", Num(3)>>,
                               <<"completion_tokens", Num(5)>> >>)>> >>)

LookupArgs == Str("{\"q\":\"x\"}")
MsgText == OutputMessage(<<OutputText("Hi")>>, Undefined)
MsgTextStopped == OutputMessage(<<OutputText("Hi")>>, Str("max_tokens"))
MsgCallT1 ==
    OutputMessage(<<ToolCalls(<<ToolCall(Str("t1"), Str("lookup"), LookupArgs)>>)>>,
                  Undefined)
MsgEmpty == OutputMessage(<<>>, Null)
MsgRefusal ==
    OutputMessage(<<Props(<< <<"type", Str("refusal")>>, <<"text", Str("no")>> >>)>>,
                  Undefined)
MsgAnonymousCalls ==
    OutputMessage(<<ToolCalls(<<ToolCall(Undefined, Undefined, Str("")),
                                ToolCall(Undefined, Undefined, Undefined)>>)>>,
                  Undefined)
CallT1 == FunctionCall(Str("t1"), Str("fc_1"), Str("lookup"), LookupArgs)
CallT2 == FunctionCall(Undefined, Str("t2"), Str("lookup"), Str("{bad"))
CallAnonymous == FunctionCall(Undefined, Undefined, Undefined, Undefined)
CallNull == FunctionCall(Str("t3"), Undefined, Str("lookup"), Str("null"))
ReasoningItem == Props(<< <<"type", Str("reasoning")>> >>)

OutputItems ==
    { MsgText, MsgTextStopped, MsgCallT1, MsgEmpty, MsgRefusal, MsgAnonymousCalls,
      CallT1, CallT2, CallAnonymous, CallNull, ReasoningItem, Null }

\* Bound of the upstream output list
MaxOutputItems == 3

Outputs == UNION {[1..n -> OutputItems] : n \in 0..MaxOutputItems}

UpstreamResults ==
    { UpstreamData(output, outputText) :
        output \in {Undefined} \cup {Arr(o) : o \in Outputs},
        outputText \in {Undefined, Str("flat")} }

(***************************************************************************)
(* State                                                                   *)
(***************************************************************************)
VARIABLES
    pc,             \* where the exchange stands
    serverConfig,   \* the configuration read at start-up
    expectedAnthropicToken, \* process.env.ANTHROPIC_AUTH_TOKEN ?? null
    headers,        \* the x-api-key and authorization headers of the request
    body,           \* req.body of the exchange
    azureRequest,   \* what anthropicToAzureRequest returned or threw
    calls,          \* the payloads posted to the upstream service, in order
    azureData,      \* azureResponse.data of the outbound call
    anthropicResponse,  \* what azureToAnthropicResponse returned
    res,            \* the HTTP response: status, kind, JSON body, SSE events, ended
    index           \* the forEach index of streamAnthropicResponse

vars == <<pc, serverConfig, expectedAnthropicToken, headers, body, azureRequest,
          calls, azureData, anthropicResponse, res, index>>

\* what the exchange is given and never changes
given == <<serverConfig, expectedAnthropicToken, headers, body>>

\* a response on which nothing has been written
NoResponse ==
    [status |-> 0, kind |-> "none", json |-> Undefined, events |-> <<>>,
     ended |-> FALSE]
NoHeaders == [xApiKey |-> Undefined, authorization |-> Undefined]

\* the part of the state that the translations on their own do not use
TransportIdle ==
    /\ expectedAnthropicToken = Null
    /\ headers = NoHeaders
    /\ calls = <<>>
    /\ res = NoResponse
    /\ index = 0

\* options passed by the handler: { defaultReasoningEffort: serverConfig.reasoningEffort }
translateOptions(config) ==
    Obj(<< <<"defaultReasoningEffort", config.reasoningEffort>> >>)

(***************************************************************************)
(* Request translation on its own: anthropicToAzureRequest applied to one  *)
(* request under one configuration.                                        *)
(***************************************************************************)
InitRequest ==
    /\ pc = "start"
    /\ \/ /\ \E m \in 1..MaxMessages :
                \E shape \in [1..m -> 0..MaxBlocks] :
                   /\ Sum(shape) <= MaxBlocks
                   /\ \E roles \in [1..m -> Roles] :
                         \E blocks \in [1..Sum(shape) -> BlockItems] :
                            body = StructureBody(shape, roles, blocks)
          /\ serverConfig = DefaultConfig
       \/ /\ body \in SystemBodies \cup ToolResultBodies \cup RejectedBodies
          /\ serverConfig = DefaultConfig
       \/ body \in ConfigBodies /\ serverConfig \in ServerConfigs
    /\ azureRequest = Undefined
    /\ azureData = Undefined
    /\ anthropicResponse = Undefined
    /\ TransportIdle

TranslateRequest ==
    /\ pc = "start"
    /\ azureRequest' = anthropicToAzureRequest(body, serverConfig.model,
                                               translateOptions(serverConfig))
    /\ pc' = "translated"
    /\ UNCHANGED <<given, calls, azureData, anthropicResponse, res, index>>

NextRequest == TranslateRequest

SpecRequest == InitRequest /\ [][NextRequest]_vars

(***************************************************************************)
(* Response translation on its own: azureToAnthropicResponse applied to    *)
(* one upstream result, for the request "Hello".                           *)
(***************************************************************************)
HelloBody == Body(Str("claude"), Undefined, Hello, Undefined, Undefined)

InitResponse ==
    /\ pc = "received"
    /\ serverConfig = DefaultConfig
    /\ body = HelloBody
    /\ azureRequest = anthropicToAzureRequest(body, serverConfig.model,
                                              translateOptions(serverConfig))
    /\ azureData \in UpstreamResults
    /\ anthropicResponse = Undefined
    /\ TransportIdle

TranslateResponse ==
    /\ pc = "received"
    /\ anthropicResponse' = azureToAnthropicResponse(azureData, azureRequest.value.model)
    /\ pc' = "converted"
    /\ UNCHANGED <<given, azureRequest, calls, azureData, res, index>>

NextResponse == TranslateResponse

SpecResponse == InitResponse /\ [][NextResponse]_vars

(***************************************************************************)
(* server.ts: one POST /v1/messages exchange                               *)
(***************************************************************************)
StartsWith(s, prefix) ==
    Len(s) >= Len(prefix) /\ SubSeq(s, 1, Len(prefix)) = prefix

\* req.header('x-api-key') ?? (authorization?.startsWith('Bearer ')
\*     ? authorization.slice('Bearer '.length) : undefined)
providedToken(h) ==
    Coalesce(h.xApiKey,
             IF IsString(h.authorization) /\ StartsWith(h.authorization.s, "Bearer ")
             THEN Str(SubSeq(h.authorization.s, Len("Bearer ") + 1,
                             Len(h.authorization.s)))
             ELSE Undefined)

\* the test that leads to the 401 response
authRejected(expected, h) ==
    /\ Truthy(expected)
    /\ ~Truthy(providedToken(h)) \/ providedToken(h) # expected

\* res.status(status).json(payload)
JsonResponse(status, payload) ==
    [status |-> status, kind |-> "json", json |-> payload, events |-> <<>>,
     ended |-> TRUE]
ErrorPayload(message) == [error |-> [message |-> message]]

\* the message sent for an axios error
upstreamErrorMessage(error) ==
    LET data == Get(Get(error, "response"), "data") IN
    IF IsString(data) THEN data
    ELSE Coalesce(Get(Get(data, "error"), "message"),
                  Coalesce(Get(data, "message"),
                           Str("Unexpected error from Azure OpenAI service")))
upstreamErrorStatus(error) ==
    Coalesce(Get(Get(error, "response"), "status"), Num(500)).n

\* if (body.stream)
wantsStream(b) == Truthy(Get(b, "stream"))

\* writeSseEvent(res, event, data)
writeSseEvent(r, event, data) ==
    [r EXCEPT !.events = Append(@, [event |-> event, data |-> data])]

\* Mutant: an empty text block gets a delta too.
hasDeltaAlways(block) == block.type \in {"text", "tool_use"}

\* the delta that follows content_block_start, if the block has one
hasDelta(block) ==
    \/ block.type = "text" /\ Len(block.text) > 0
    \/ block.type = "tool_use"
deltaOf(block) ==
    IF block.type = "text"
    THEN [type |-> "text_delta", text |-> block.text]
    ELSE [type |-> "input_json_delta",
          partial_json |-> JSONstringify(Coalesce(block.input, Obj(<<>>)))]

\* Mutant: the payload is posted whether or not the translation succeeded.
PostMessagesUnchecked ==
    /\ pc = "idle"
    /\ IF authRejected(expectedAnthropicToken, headers)
       THEN /\ res' = JsonResponse(401, ErrorPayload(Str("Invalid or missing API key")))
            /\ pc' = "done"
            /\ UNCHANGED <<azureRequest, calls>>
       ELSE LET r == anthropicToAzureRequest(body, serverConfig.model,
                                             translateOptions(serverConfig)) IN
            /\ azureRequest' = r
            /\ calls' = Append(calls, r)
            /\ IF r.ok
               THEN pc' = "awaiting" /\ UNCHANGED res
               ELSE /\ res' = JsonResponse(400, ErrorPayload(Str(r.error)))
                    /\ pc' = "done"
    /\ UNCHANGED <<given, azureData, anthropicResponse, index>>

\* The synchronous part of the handler up to `await axios.post`: the auth
\* gate, the request translation and the outbound call, or the error response
\* of the catch block.
PostMessages ==
    /\ pc = "idle"
    /\ IF authRejected(expectedAnthropicToken, headers)
       THEN /\ res' = JsonResponse(401, ErrorPayload(Str("Invalid or missing API key")))
            /\ pc' = "done"
            /\ UNCHANGED <<azureRequest, calls>>
       ELSE LET r == anthropicToAzureRequest(body, serverConfig.model,
                                             translateOptions(serverConfig)) IN
            /\ azureRequest' = r
            /\ IF r.ok
               THEN /\ calls' = Append(calls, r.value)
                    /\ pc' = "awaiting"
                    /\ UNCHANGED res
               ELSE /\ res' = JsonResponse(400, ErrorPayload(Str(r.error)))
                    /\ pc' = "done"
                    /\ UNCHANGED calls
    /\ UNCHANGED <<given, azureData, anthropicResponse, index>>

\* The outbound call resolves: the result is translated and either handed to
\* streamAnthropicResponse or sent with res.json.
UpstreamReplies(data) ==
    /\ pc = "awaiting"
    /\ azureData' = data
    /\ anthropicResponse' = azureToAnthropicResponse(data, azureRequest.value.model)
    /\ IF wantsStream(body)
       THEN pc' = "message_start" /\ UNCHANGED res
       ELSE pc' = "done" /\ res' = JsonResponse(200, anthropicResponse')
    /\ UNCHANGED <<given, azureRequest, calls, index>>

\* Mutant: after an axios error the payload is posted once more.
UpstreamFailsRetry(error) ==
    /\ pc = "awaiting"
    /\ calls' = Append(calls, azureRequest.value)
    /\ pc' = "awaiting"
    /\ UNCHANGED <<given, azureRequest, azureData, anthropicResponse, res, index>>

\* The outbound call rejects with an axios error (a non-2xx status, a
\* timeout, a transport failure).
UpstreamFails(error) ==
    /\ pc = "awaiting"
    /\ res' = JsonResponse(upstreamErrorStatus(error),
                           ErrorPayload(upstreamErrorMessage(error)))
    /\ pc' = "done"
    /\ UNCHANGED <<given, azureRequest, calls, azureData, anthropicResponse, index>>

\* streamAnthropicResponse: status, headers and the message_start event
StreamMessageStart ==
    /\ pc = "message_start"
    /\ res' = writeSseEvent([res EXCEPT !.status = 200, !.kind = "sse"],
                 "message_start",
                 [type |-> "message_start",
                  message |-> [id |-> anthropicResponse.id,
                               type |-> "message",
                               role |-> anthropicResponse.role,
                               model |-> anthropicResponse.model,
                               content |-> <<>>,
                               stop_reason |-> Null,
                               stop_sequence |-> Null,
                               usage |-> anthropicResponse.usage]])
    /\ index' = 0
    /\ pc' = IF Len(anthropicResponse.content) > 0 THEN "block_start"
             ELSE "message_delta"
    /\ UNCHANGED <<given, azureRequest, calls, azureData, anthropicResponse>>

\* forEach callback: content_block_start for the block at `index`
StreamBlockStart ==
    /\ pc = "block_start"
    /\ LET block == anthropicResponse.content[index + 1] IN
       /\ res' = writeSseEvent(res, "content_block_start",
                    [type |-> "content_block_start", index |-> index,
                     content_block |-> block])
       /\ pc' = IF hasDelta(block) THEN "block_delta" ELSE "block_stop"
    /\ UNCHANGED <<given, azureRequest, calls, azureData, anthropicResponse, index>>

\* forEach callback: the content_block_delta of a non-empty text or a tool_use
StreamBlockDelta ==
    /\ pc = "block_delta"
    /\ res' = writeSseEvent(res, "content_block_delta",
                 [type |-> "content_block_delta", index |-> index,
                  delta |-> deltaOf(anthropicResponse.content[index + 1])])
    /\ pc' = "block_stop"
    /\ UNCHANGED <<given, azureRequest, calls, azureData, anthropicResponse, index>>

\* Mutant: content_block_stop carries the position counted from one.
StreamBlockStopFromOne ==
    /\ pc = "block_stop"
    /\ res' = writeSseEvent(res, "content_block_stop",
                 [type |-> "content_block_stop", index |-> index + 1])
    /\ index' = index + 1
    /\ pc' = IF index + 1 < Len(anthropicResponse.content) THEN "block_start"
             ELSE "message_delta"
    /\ UNCHANGED <<given, azureRequest, calls, azureData, anthropicResponse>>

\* forEach callback: content_block_stop, then the next block if there is one
StreamBlockStop ==
    /\ pc = "block_stop"
    /\ res' = writeSseEvent(res, "content_block_stop",
                 [type |-> "content_block_stop", index |-> index])
    /\ index' = index + 1
    /\ pc' = IF index + 1 < Len(anthropicResponse.content) THEN "block_start"
             ELSE "message_delta"
    /\ UNCHANGED <<given, azureRequest, calls, azureData, anthropicResponse>>

StreamMessageDelta ==
    /\ pc = "message_delta"
    /\ res' = writeSseEvent(res, "message_delta",
                 [type |-> "message_delta",
                  delta |-> [stop_reason |-> anthropicResponse.stop_reason,
                             stop_sequence |-> anthropicResponse.stop_sequence],
                  usage |-> anthropicResponse.usage])
    /\ pc' = "message_stop"
    /\ UNCHANGED <<given, azureRequest, calls, azureData, anthropicResponse, index>>

StreamMessageStop ==
    /\ pc = "message_stop"
    /\ res' = writeSseEvent(res, "message_stop", [type |-> "message_stop"])
    /\ pc' = "end"
    /\ UNCHANGED <<given, azureRequest, calls, azureData, anthropicResponse, index>>

\* Mutant: after the stream is ended the handler goes on to res.json.
StreamEndThenJson ==
    /\ pc = "end"
    /\ res' = [res EXCEPT !.ended = TRUE, !.kind = "json", !.json = anthropicResponse]
    /\ pc' = "done"
    /\ UNCHANGED <<given, azureRequest, calls, azureData, anthropicResponse, index>>

\* res.end()
StreamEnd ==
    /\ pc = "end"
    /\ res' = [res EXCEPT !.ended = TRUE]
    /\ pc' = "done"
    /\ UNCHANGED <<given, azureRequest, calls, azureData, anthropicResponse, index>>

(***************************************************************************)
(* Inputs of the exchange                                                  *)
(***************************************************************************)
Streams ==
    { Undefined, Null, Bool(TRUE), Bool(FALSE), Str("true"), Str("false"),
      Str(""), Num(1), Num(0) }
ExchangeBodies ==
    { Body(Str("claude"), Undefined, Hello, Undefined, stream) : stream \in Streams }
    \cup { Body(Undefined, Undefined, Hello, Undefined, Bool(TRUE)) }
    \cup RejectedBodies
ExchangeConfigs == {DefaultConfig, [model |-> Undefined, reasoningEffort |-> Undefined]}
ExchangeHeaders ==
    { NoHeaders,
      [xApiKey |-> Str("secret"), authorization |-> Undefined],
      [xApiKey |-> Str("wrong"), authorization |-> Undefined],
      [xApiKey |-> Undefined, authorization |-> Str("Bearer secret")],
      [xApiKey |-> Undefined, authorization |-> Str("Basic secret")] }

\* Bound of the upstream output list of a whole exchange
MaxExchangeItems == 2

ExchangeOutputItems == {MsgText, MsgCallT1, MsgEmpty, CallT1, CallNull}
ExchangeResults ==
    { UpstreamData(output, outputText) :
        output \in {Undefined}
                   \cup {Arr(o) : o \in UNION {[1..n -> ExchangeOutputItems] :
                                                 n \in 0..MaxExchangeItems}},
        outputText \in {Undefined, Str("flat")} }

AxiosError(response) == Props(<< <<"response", response>> >>)
UpstreamErrors ==
    { AxiosError(Undefined),
      AxiosError(Obj(<< <<"status", Num(429)>>, <<"data", Str("rate limited")>> >>)),
      AxiosError(Obj(<< <<"status", Num(500)>>,
                        <<"data", Obj(<< <<"error",
                                  Obj(<< <<"message", Str("boom")>> >>)>> >>)>> >>)),
      AxiosError(Obj(<< <<"status", Num(404)>>,
                        <<"data", Obj(<< <<"message", Str("no route")>> >>)>> >>)) }

Init ==
    /\ pc = "idle"
    /\ serverConfig \in ExchangeConfigs
    /\ expectedAnthropicToken \in {Null, Str("secret")}
    /\ headers \in ExchangeHeaders
    /\ body \in ExchangeBodies
    /\ azureRequest = Undefined
    /\ calls = <<>>
    /\ azureData = Undefined
    /\ anthropicResponse = Undefined
    /\ res = NoResponse
    /\ index = 0

Next ==
    \/ PostMessages
    \/ \E data \in ExchangeResults : UpstreamReplies(data)
    \/ \E error \in UpstreamErrors : UpstreamFails(error)
    \/ StreamMessageStart
    \/ StreamBlockStart
    \/ StreamBlockDelta
    \/ StreamBlockStop
    \/ StreamMessageDelta
    \/ StreamMessageStop
    \/ StreamEnd

Spec == Init /\ [][Next]_vars

(***************************************************************************)
(* Properties of the request translation (SpecRequest)                     *)
(***************************************************************************)
Translated == pc = "translated"
Accepted == Translated /\ azureRequest.ok

\* the blocks of one message, as normalizeMessageContent returns them
BlocksOf(message) == normalizeMessageContent(Get(message, "content")).value

RECURSIVE Flatten(_)
Flatten(seqs) == IF seqs = <<>> THEN <<>> ELSE Head(seqs) \o Flatten(Tail(seqs))

\* ---- C5 ----
IsText(blocks, i) == blocks[i].type = "text"
\* position i opens a maximal run of Text blocks
OpensRun(blocks, i) == IsText(blocks, i) /\ (i = 1 \/ ~IsText(blocks, i - 1))
\* the last position of the maximal run that holds position i
RunEnd(blocks, i) ==
    CHOOSE j \in i..Len(blocks) :
        /\ \A x \in i..j : IsText(blocks, x)
        /\ j = Len(blocks) \/ ~IsText(blocks, j + 1)
RunText(blocks, i) ==
    Join([x \in 1..(RunEnd(blocks, i) - i + 1) |-> blocks[i + x - 1].text])

\* the one item that the block at position i stands for
ItemFor(role, blocks, i) ==
    CASE blocks[i].type = "text" ->
            MessageItem(role,
                        IF role = Str("assistant") THEN "output_text" ELSE "input_text",
                        RunText(blocks, i))
      [] blocks[i].type = "tool_use" ->
            FunctionCallItem(blocks[i].id, blocks[i].name,
                             JSONstringify(blocks[i].input))
      [] blocks[i].type = "tool_result" ->
            FunctionCallOutputItem(blocks[i].tool_use_id,
                                   serializeToolResultOutput(blocks[i]))

\* one item per run of Text blocks and per non-text block, in block order
ExpectedItemsOf(message) ==
    LET blocks == BlocksOf(message)
        at == SelectSeq([i \in 1..Len(blocks) |-> i],
                        LAMBDA i : ~IsText(blocks, i) \/ OpensRun(blocks, i))
    IN  [x \in 1..Len(at) |-> ItemFor(Get(message, "role"), blocks, at[x])]

\* A system prompt is present when body.system is a non-empty string.
SystemPresent == IsString(Get(body, "system")) /\ Get(body, "system").s # ""

ExpectedInput ==
    LET messages == Get(body, "messages").a IN
    (IF SystemPresent
     THEN <<MessageItem(Str("system"), "input_text", Get(body, "system").s)>>
     ELSE <<>>)
    \o Flatten([m \in 1..Len(messages) |-> ExpectedItemsOf(messages[m])])

\* C5: for an accepted request, input is the system item (iff a system prompt
\* is present) followed, message by message and block by block, by one
\* message item per maximal run of Text blocks (its text the concatenation of
\* the run, output_text for assistant and input_text otherwise), one
\* function_call per ToolUse and one function_call_output per ToolResult;
\* nothing is reordered, duplicated, dropped or merged across a non-text
\* block or across messages.
C5_InputMirrorsBlocks == Accepted => azureRequest.value.input = ExpectedInput

\* C5 witness: an accepted request with a system prompt and two messages,
\* the first an assistant message of two Text blocks (one merged output_text
\* item), the second starting with a Text block (not merged across messages).
C5_Witness ==
    /\ Accepted
    /\ SystemPresent
    /\ LET messages == Get(body, "messages").a IN
       /\ Len(messages) = 2
       /\ Get(messages[1], "role") = Str("assistant")
       /\ IsArray(Get(messages[1], "content"))
       /\ LET b == BlocksOf(messages[1]) IN
          Len(b) = 2 /\ b[1].type = "text" /\ b[2].type = "text"
       /\ BlocksOf(messages[2]) # <<>>
       /\ BlocksOf(messages[2])[1].type = "text"
    /\ Len(azureRequest.value.input) = 3
    /\ azureRequest.value.input[2].content[1].type = "output_text"

\* C5 witness of a run cut by a non-text block: Text, ToolUse, Text gives
\* three items.
C5_WitnessCut ==
    /\ Accepted
    /\ ~SystemPresent
    /\ LET messages == Get(body, "messages").a IN
       /\ Len(messages) = 1
       /\ IsArray(Get(messages[1], "content"))
       /\ LET b == BlocksOf(messages[1]) IN
          /\ Len(b) = 3
          /\ b[1].type = "text" /\ b[2].type = "tool_use" /\ b[3].type = "text"
    /\ Len(azureRequest.value.input) = 3

\* ---- C7 ----
\* the request's model is a string that is non-empty after trimming
ModelUsable == IsString(Get(body, "model")) /\ Trim(Get(body, "model").s) # ""
\* the fallback resolves to a non-empty model id
FallbackUsable == IsString(serverConfig.model) /\ serverConfig.model.s # ""
\* the messages of the request translate (no EmptyMessages, no block error)
MessagesTranslate ==
    /\ IsArray(Get(body, "messages"))
    /\ Get(body, "messages").a # <<>>
    /\ translateMessages(Get(body, "messages").a, <<>>).ok

C7_WitnessNoModel ==
    /\ Translated /\ ~azureRequest.ok
    /\ ~ModelUsable /\ ~FallbackUsable /\ MessagesTranslate
    /\ azureRequest.error = ErrNoModel

\* ---- C8 ----
RequestEffort == Get(Get(body, "reasoning"), "effort")
\* the effective effort as the claim has it
ClaimedEffort ==
    IF IsString(RequestEffort) /\ RequestEffort.s # ""
    THEN RequestEffort
    ELSE serverConfig.reasoningEffort

\* C8: the effective reasoning effort is the request's reasoning.effort when
\* that is a non-empty string and otherwise (absent, empty or non-string) the
\* default; RequestB.reasoning.effort is present iff the effective value is a
\* non-empty string, and then equals it.
C8_ReasoningEffort ==
    Accepted =>
        LET present == azureRequest.value.reasoning # Undefined IN
        /\ present <=> (IsString(ClaimedEffort) /\ ClaimedEffort.s # "")
        /\ present => Get(azureRequest.value.reasoning, "effort") = ClaimedEffort

\* ---- C10 ----
\* the output the claim's priority rule gives for one ToolResult block
ClaimedOutput(block) ==
    IF IsString(block.content) THEN block.content.s
    ELSE IF IsArray(block.content)
    THEN Join([i \in 1..Len(block.content.a) |-> Get(block.content.a[i], "text").s])
    ELSE IF IsString(block.text) THEN block.text.s
    ELSE JSONstringify(Props(<< <<"tool_use_id", block.tool_use_id>>,
                                <<"content", block.content>>,
                                <<"is_error", block.is_error>>,
                                <<"status", block.status>> >>))

AllBlocks ==
    LET messages == Get(body, "messages").a IN
    Flatten([m \in 1..Len(messages) |-> BlocksOf(messages[m])])

\* C10: the function_call_output items of input are, in order, those of the
\* ToolResult blocks: call_id is the block's tool_use_id and output follows
\* the priority content string, content array, text string, JSON encoding.
C10_ToolResultOutput ==
    Accepted =>
        LET results == SelectSeq(AllBlocks, LAMBDA b : b.type = "tool_result")
            outputs == SelectSeq(azureRequest.value.input,
                                 LAMBDA it : it.type = "function_call_output")
        IN  outputs = [i \in 1..Len(results) |->
                         [type |-> "function_call_output",
                          call_id |-> results[i].tool_use_id,
                          output |-> ClaimedOutput(results[i])]]

\* C10 witness: a ToolResult block with an array content and a string text
\* (the array wins).
C10_Witness ==
    /\ Accepted
    /\ \E i \in 1..Len(AllBlocks) :
          /\ AllBlocks[i].type = "tool_result"
          /\ AllBlocks[i].content = FourTwo
          /\ AllBlocks[i].text = Str("t")
    /\ \E i \in 1..Len(azureRequest.value.input) :
          azureRequest.value.input[i] =
              [type |-> "function_call_output", call_id |-> Str("t1"), output |-> "42"]

\* C10 witness of the JSON case: content null, is_error true, no status.
C10_WitnessJson ==
    /\ Accepted
    /\ \E i \in 1..Len(azureRequest.value.input) :
          /\ azureRequest.value.input[i].type = "function_call_output"
          /\ azureRequest.value.input[i].output =
                "{\"tool_use_id\":\"t1\",\"content\":null,\"is_error\":true}"

(***************************************************************************)
(* Properties of the response translation (SpecResponse)                   *)
(***************************************************************************)
Converted == pc = "converted"

\* the output items of the upstream result that the loop looks at
OutputOf(data) ==
    SelectSeq(Coalesce(Get(data, "output"), Arr(<<>>)).a, LAMBDA item : Truthy(item))
IsMessageItem(item) == Get(item, "type") = Str("message")
IsFunctionCallItem(item) == Get(item, "type") = Str("function_call")
ToolUsesOf(response) == SelectSeq(response.content, LAMBDA b : b.type = "tool_use")

\* ---- C2 ----
\* the message items that carry an explicit non-null stop_reason
StoppedMessages ==
    SelectSeq(OutputOf(azureData),
              LAMBDA item : IsMessageItem(item) /\ ~IsNullish(Get(item, "stop_reason")))

ClaimedStopReason ==
    IF StoppedMessages # <<>> THEN Get(StoppedMessages[1], "stop_reason")
    ELSE IF ToolUsesOf(anthropicResponse) # <<>> THEN Str("tool_use")
    ELSE Str("end_turn")

\* C2: whatever the order of the message and function_call items, stop_reason
\* is the explicit non-null stop_reason of a message item if there is one,
\* else "tool_use" if the returned content holds a ToolUse block, else
\* "end_turn".
C2_StopReason == Converted => anthropicResponse.stop_reason = ClaimedStopReason

\* ---- C3 ----
\* the calls inside the tool_calls blocks of the message items
EmbeddedCalls ==
    LET msgs == SelectSeq(OutputOf(azureData), IsMessageItem)
        blocksOf(m) == SelectSeq(Coalesce(Get(m, "content"), Arr(<<>>)).a,
                                 LAMBDA b : Get(b, "type") = Str("tool_calls"))
        callsOf(m) == Flatten([i \in 1..Len(blocksOf(m)) |->
                                  Get(blocksOf(m)[i], "tool_calls").a])
    IN  Flatten([i \in 1..Len(msgs) |-> callsOf(msgs[i])])
TopLevelCalls == SelectSeq(OutputOf(azureData), IsFunctionCallItem)

Count(seq, Test(_)) == Len(SelectSeq(seq, Test))

\* the tool call `id` appears once inside a message and once as a top-level item
AppearsInBoth(id) ==
    /\ Count(EmbeddedCalls, LAMBDA c : Get(c, "id") = id) = 1
    /\ Count(TopLevelCalls, LAMBDA c : Get(c, "call_id") = id) = 1

\* C3: a tool call that appears both inside a message's tool_calls block and
\* as a top-level function_call item with the same id, in either order of the
\* two items, gives exactly one ToolUse block with that id.
C3_Deduplicated ==
    Converted =>
        \A id \in {Str("t1"), Str("t2")} :
            AppearsInBoth(id) =>
                Count(anthropicResponse.content,
                      LAMBDA b : b.type = "tool_use" /\ b.id = id) = 1

\* ---- C6 ----
\* an output item from which the loop can produce a block
YieldsBlock(item) ==
    \/ IsFunctionCallItem(item)
    \/ /\ IsMessageItem(item)
       /\ \E i \in 1..Len(Get(item, "content").a) :
             LET b == Get(item, "content").a[i] IN
             \/ Get(b, "type") \in {Str("output_text"), Str("summary_text")}
             \/ Get(b, "type") = Str("tool_calls") /\ Get(b, "tool_calls").a # <<>>
NoBlockYielded ==
    \A i \in 1..Len(OutputOf(azureData)) : ~YieldsBlock(OutputOf(azureData)[i])

\* C6: content is never empty; when the output items produce no block it is
\* exactly one Text block holding output_text, or "" if output_text is absent.
C6_ContentNonEmpty ==
    Converted =>
        /\ anthropicResponse.content # <<>>
        /\ NoBlockYielded =>
              anthropicResponse.content =
                  << [type |-> "text",
                      text |-> IF HasKey(azureData, "output_text")
                               THEN Get(azureData, "output_text").s ELSE ""] >>

\* C6 witness: output items that yield no block and no output_text give one
\* empty Text block.
C6_Witness ==
    /\ Converted
    /\ OutputOf(azureData) # <<>>
    /\ NoBlockYielded
    /\ ~HasKey(azureData, "output_text")
    /\ anthropicResponse.content = <<[type |-> "text", text |-> ""]>>

\* ---- C12 ----
\* one tool call of the upstream result: the id the translation gives it, its
\* arguments, and whether it sits inside a tool_calls block
EmbeddedCall(call) ==
    [id |-> Coalesce(Get(call, "id"),
            Coalesce(Get(call, "name"),
            Coalesce(Get(Get(call, "function"), "name"), Str("tool")))),
     arguments |-> Coalesce(Get(call, "arguments"),
                            Get(Get(call, "function"), "arguments")),
     embedded |-> TRUE]
TopLevelCall(call) ==
    [id |-> Coalesce(Get(call, "call_id"),
            Coalesce(Get(call, "id"),
            Coalesce(Get(call, "name"), Str("tool")))),
     arguments |-> Get(call, "arguments"),
     embedded |-> FALSE]

\* the tool calls of one output item, in order
CallsOfItem(item) ==
    IF IsMessageItem(item)
    THEN LET blocks == SelectSeq(Coalesce(Get(item, "content"), Arr(<<>>)).a,
                                 LAMBDA b : Get(b, "type") = Str("tool_calls"))
             calls_(b) == Coalesce(Get(b, "tool_calls"), Arr(<<>>)).a
         IN  Flatten([i \in 1..Len(blocks) |->
                        [j \in 1..Len(calls_(blocks[i])) |->
                            EmbeddedCall(calls_(blocks[i])[j])]])
    ELSE IF IsFunctionCallItem(item) THEN <<TopLevelCall(item)>>
    ELSE <<>>
AllCalls ==
    Flatten([i \in 1..Len(OutputOf(azureData)) |-> CallsOfItem(OutputOf(azureData)[i])])

\* the calls that have a ToolUse block of their own: every call but a
\* top-level one whose id was met before
RECURSIVE KeptCalls(_, _)
KeptCalls(calls_, seen) ==
    IF calls_ = <<>> THEN <<>>
    ELSE LET c == Head(calls_) IN
         IF ~c.embedded /\ c.id \in seen THEN KeptCalls(Tail(calls_), seen)
         ELSE <<c>> \o KeptCalls(Tail(calls_), seen \cup {c.id})

IsJson(text) == \E v \in JsonValues : JSONstringify(v) = text
\* the input the claim gives to a call with these arguments
ClaimedInput(arguments) ==
    IF IsNullish(arguments) \/ arguments = Str("") \/ ~IsJson(arguments.s)
    THEN Obj(<<>>)
    ELSE CHOOSE v \in JsonValues : JSONstringify(v) = arguments.s

\* C12: the response translation does not fail because of a tool call's
\* arguments: it returns a ResponseA whose ToolUse blocks are, in order,
\* those of the tool calls (embedded or top-level), and the input of each is
\* {} when the call's arguments are absent, empty or not valid JSON and the
\* parsed value when they are valid JSON.
C12_ArgumentsNeverFail ==
    Converted =>
        LET kept == KeptCalls(AllCalls, {})
            uses == ToolUsesOf(anthropicResponse)
        IN  /\ anthropicResponse.type = "message"
            /\ Len(uses) = Len(kept)
            /\ \A i \in 1..Len(uses) :
                  /\ uses[i].id = kept[i].id
                  /\ uses[i].input = ClaimedInput(kept[i].arguments)

\* C12 witness: a top-level call with valid arguments and one whose arguments
\* do not parse; the second ToolUse block has input {}.
C12_Witness ==
    /\ Converted
    /\ OutputOf(azureData) = <<CallT1, CallT2>>
    /\ [i \in 1..2 |-> ToolUsesOf(anthropicResponse)[i].input] =
          <<Obj(<< <<"q", Str("x")>> >>), Obj(<<>>)>>

\* C12 witness: embedded calls with empty and with absent arguments.
C12_WitnessEmbedded ==
    /\ Converted
    /\ OutputOf(azureData) = <<MsgAnonymousCalls>>
    /\ [i \in 1..2 |-> ToolUsesOf(anthropicResponse)[i].input] = <<Obj(<<>>), Obj(<<>>)>>

\* ---- C14 ----
\* a tool call without id and without name
IsAnonymous(call) ==
    /\ IsNullish(Get(call, "id")) /\ IsNullish(Get(call, "call_id"))
    /\ IsNullish(Get(call, "name"))
    /\ IsNullish(Get(Get(call, "function"), "name"))
AnonymousEmbedded == SelectSeq(EmbeddedCalls, IsAnonymous)
AnonymousTopLevel == SelectSeq(TopLevelCalls, IsAnonymous)

\* the ToolUse blocks that come from anonymous calls: every call with a name
\* keeps it, so these are the blocks named by the default, 'tool'
AnonymousToolUses ==
    SelectSeq(ToolUsesOf(anthropicResponse), LAMBDA b : b.name = Str("tool"))

IsSynthesizedId(id) ==
    /\ IsString(id)
    /\ Len(id.s) > Len("tool_")
    /\ SubSeq(id.s, 1, Len("tool_")) = "tool_"
    /\ \A i \in Len("tool_") + 1..Len(id.s) :
          \E d \in 0..9 : SubSeq(id.s, i, i) = Digit(d)

\* C14: a tool call without id and without name gets a synthesized id of the
\* form tool_<n>; two such calls in one upstream result get different ids and
\* each has its own ToolUse block, none being dropped by de-duplication.
C14_AnonymousCallsKept ==
    Converted =>
        /\ Len(AnonymousToolUses) = Len(AnonymousEmbedded) + Len(AnonymousTopLevel)
        /\ \A i \in 1..Len(AnonymousToolUses) :
              IsSynthesizedId(AnonymousToolUses[i].id)
        /\ \A i, j \in 1..Len(AnonymousToolUses) :
              i # j => AnonymousToolUses[i].id # AnonymousToolUses[j].id

\* what the code does with two anonymous top-level calls: one block, id 'tool'
C14_OneBlockForTwoCalls ==
    /\ Converted
    /\ OutputOf(azureData) = <<CallAnonymous, CallAnonymous>>
    /\ Len(ToolUsesOf(anthropicResponse)) = 1
    /\ ToolUsesOf(anthropicResponse)[1].id = Str("tool")

(***************************************************************************)
(* Properties of the exchange (Spec)                                       *)
(***************************************************************************)
IsPrefix(a, b) == Len(a) <= Len(b) /\ a = SubSeq(b, 1, Len(a))
EventNames(events) == [i \in 1..Len(events) |-> events[i].event]

\* ---- C1 ----
\* the events of one block: start, a delta for a non-empty Text block or a
\* ToolUse block, stop
BlockEventNames(block) ==
    <<"content_block_start">>
    \o (IF \/ block.type = "text" /\ block.text # ""
           \/ block.type = "tool_use"
        THEN <<"content_block_delta">> ELSE <<>>)
    \o <<"content_block_stop">>

ExpectedEventNames(response) ==
    <<"message_start">>
    \o Flatten([i \in 1..Len(response.content) |-> BlockEventNames(response.content[i])])
    \o <<"message_delta", "message_stop">>

\* C1: the events written for a ResponseA are exactly message_start, then per
\* block content_block_start, one content_block_delta for a non-empty Text
\* block or a ToolUse block, content_block_stop, then message_delta and
\* message_stop; the transport is ended after message_stop and not before,
\* and nothing is written beyond that sequence.
C1_StreamSequence ==
    /\ res.kind = "sse" =>
          IsPrefix(EventNames(res.events), ExpectedEventNames(anthropicResponse))
    /\ (res.kind = "sse" /\ res.ended) =>
          EventNames(res.events) = ExpectedEventNames(anthropicResponse)
    /\ (res.kind = "sse" /\ pc = "done") => res.ended

\* C1 witness: a finished stream of a Text block and a ToolUse block (nine
\* events).
C1_Witness ==
    /\ pc = "done" /\ res.kind = "sse" /\ res.ended
    /\ Len(anthropicResponse.content) = 2
    /\ anthropicResponse.content[1].type = "text"
    /\ anthropicResponse.content[2].type = "tool_use"
    /\ Len(res.events) = 9

\* C1 witness of a block without delta: a finished stream of one empty Text
\* block (five events).
C1_WitnessEmptyText ==
    /\ pc = "done" /\ res.kind = "sse" /\ res.ended
    /\ anthropicResponse.content = <<[type |-> "text", text |-> ""]>>
    /\ Len(res.events) = 5

\* ---- C13 ----
IsBlockEvent(e) ==
    e.event \in {"content_block_start", "content_block_delta", "content_block_stop"}
BlockEvents(events) == SelectSeq(events, IsBlockEvent)

\* the delta payload as the claim has it: the full text, or the JSON encoding
\* of the block's input
ClaimedDelta(block) ==
    IF block.type = "text"
    THEN [type |-> "text_delta", text |-> block.text]
    ELSE [type |-> "input_json_delta", partial_json |-> JSONstringify(block.input)]

\* the same, with {} encoded for a ToolUse block whose input is null or absent
DeltaOrEmptyObject(block) ==
    IF block.type = "text"
    THEN [type |-> "text_delta", text |-> block.text]
    ELSE [type |-> "input_json_delta",
          partial_json |-> IF IsNullish(block.input) THEN "{}"
                           ELSE JSONstringify(block.input)]

\* the events of the block at position i (counted from 0)
EventsOfBlock(block, i, Delta(_)) ==
    << [event |-> "content_block_start",
        data |-> [type |-> "content_block_start", index |-> i,
                  content_block |-> block]] >>
    \o (IF Len(BlockEventNames(block)) = 3
        THEN << [event |-> "content_block_delta",
                 data |-> [type |-> "content_block_delta", index |-> i,
                           delta |-> Delta(block)]] >>
        ELSE <<>>)
    \o << [event |-> "content_block_stop",
           data |-> [type |-> "content_block_stop", index |-> i]] >>

ExpectedBlockEvents(response, Delta(_)) ==
    Flatten([i \in 1..Len(response.content) |->
                EventsOfBlock(response.content[i], i - 1, Delta)])

\* the block events written so far are the first ones expected, and all of
\* them once the stream is ended
BlockEventsFollow(Delta(_)) ==
    /\ res.kind = "sse" =>
          IsPrefix(BlockEvents(res.events),
                   ExpectedBlockEvents(anthropicResponse, Delta))
    /\ (res.kind = "sse" /\ res.ended) =>
          BlockEvents(res.events) = ExpectedBlockEvents(anthropicResponse, Delta)

\* C13 as stated: the start, delta and stop events of the block at position
\* i carry index i, the events of block i all come before those of block
\* i+1, content_block_start echoes the block, a Text block's delta carries
\* its full text and a ToolUse block's delta the JSON encoding of its input.
C13_BlockEventsAsClaimed == BlockEventsFollow(ClaimedDelta)

\* C13: as above, except that the delta of a ToolUse block whose input is
\* null or absent carries the encoding of the empty object, "{}".
C13_BlockEvents == BlockEventsFollow(DeltaOrEmptyObject)

\* C13 witness: a finished stream of a Text block and a ToolUse block, whose
\* six block events carry the indices 0, 0, 0, 1, 1, 1.
C13_Witness ==
    /\ pc = "done" /\ res.kind = "sse" /\ res.ended
    /\ Len(anthropicResponse.content) = 2
    /\ anthropicResponse.content[1].type = "text"
    /\ anthropicResponse.content[2].type = "tool_use"
    /\ [i \in 1..6 |-> BlockEvents(res.events)[i].data.index] = <<0, 0, 0, 1, 1, 1>>
    /\ BlockEvents(res.events)[5].data.delta =
          [type |-> "input_json_delta", partial_json |-> "{\"q\":\"x\"}"]

\* C13 witness: the delta of a ToolUse block with input null carries "{}".
C13_WitnessNullInput ==
    /\ res.kind = "sse"
    /\ \E i \in 1..Len(res.events) :
          /\ res.events[i].event = "content_block_delta"
          /\ anthropicResponse.content[res.events[i].data.index + 1].type = "tool_use"
          /\ anthropicResponse.content[res.events[i].data.index + 1].input = Null
          /\ res.events[i].data.delta.partial_json = "{}"

\* ---- C4 ----
TranslationFailed == azureRequest # Undefined /\ ~azureRequest.ok

\* C4: when the request translation fails the exchange ends with an error
\* response and no outbound call is made; an outbound call is made only with
\* the complete RequestB that anthropicToAzureRequest returned.
C4_RejectBeforeCall ==
    /\ TranslationFailed =>
          /\ calls = <<>>
          /\ pc = "done"
          /\ res = JsonResponse(400, ErrorPayload(Str(azureRequest.error)))
    /\ calls # <<>> =>
          /\ azureRequest # Undefined /\ azureRequest.ok
          /\ calls = <<azureRequest.value>>

\* C4 witness: NoModelSpecified ended the exchange with a 400 and no call.
C4_Witness ==
    /\ pc = "done"
    /\ TranslationFailed /\ azureRequest.error = ErrNoModel
    /\ calls = <<>>
    /\ res.status = 400

\* C4 witness: EmptyMessages.
C4_WitnessEmptyMessages ==
    /\ pc = "done"
    /\ TranslationFailed /\ azureRequest.error = ErrEmptyMessages
    /\ calls = <<>>
    /\ res.status = 400

\* C4 witness: UnsupportedContentBlock.
C4_WitnessUnsupportedBlock ==
    /\ pc = "done"
    /\ TranslationFailed /\ azureRequest.error \in {ErrBlockType, ErrBlockFormat}
    /\ calls = <<>>
    /\ res.status = 400

\* ---- C9 ----
UpstreamSucceeded == azureData # Undefined
StreamPathTaken == res.kind = "sse" \/ pc \in {"message_start", "block_start",
                       "block_delta", "block_stop", "message_delta",
                       "message_stop", "end"}

\* C9: after a successful upstream call the event-stream path is taken iff
\* the request's stream field is exactly the boolean true; for every other
\* value the result is one JSON response and no SSE event is written.
C9_StreamOnlyTrue ==
    UpstreamSucceeded =>
        IF Get(body, "stream") = Bool(TRUE)
        THEN StreamPathTaken
        ELSE res.kind = "json" /\ res.events = <<>> /\ ~StreamPathTaken

(***************************************************************************)
(* Properties of normalizeMessageContent (SpecRequest)                     *)
(***************************************************************************)
\* ---- C11 ----
\* the contents of the request's messages
MessageContents ==
    IF IsArray(Get(body, "messages"))
    THEN [i \in 1..Len(Get(body, "messages").a) |->
            Get(Get(body, "messages").a[i], "content")]
    ELSE <<>>

\* C11: for every message content that normalizeMessageContent accepts (a
\* string, the empty string included, or an array, the empty array included)
\* the returned block sequence is non-empty; the empty string gives exactly
\* one Text block with empty text.
C11_NormalizedNonEmpty ==
    Translated =>
        \A i \in 1..Len(MessageContents) :
            LET content == MessageContents[i]
                blocks == normalizeMessageContent(content)
            IN  ((IsString(content) \/ IsArray(content)) /\ blocks.ok) =>
                    /\ blocks.value # <<>>
                    /\ content = Str("") => blocks.value = <<TextBlock("")>>

(***************************************************************************)
(* Properties of the exchange: outbound calls and responses (Spec)         *)
(***************************************************************************)
\* ---- C15 ----
Completed == pc = "done"
\* the exchange was turned away before the outbound call: by the
\* authentication gate or by a failed request translation
RejectedBeforeCall ==
    \/ authRejected(expectedAnthropicToken, headers)
    \/ TranslationFailed
UpstreamFailed == Completed /\ calls # <<>> /\ azureData = Undefined

\* C15 as stated: every exchange makes exactly one outbound call over its
\* whole lifetime, never a second one, and none completes without it.
C15_ExactlyOneCallAsClaimed ==
    /\ Len(calls) <= 1
    /\ Completed => Len(calls) = 1

\* C15: an exchange makes at most one outbound call, never repeated after an
\* upstream error or timeout; an exchange that passes the authentication gate
\* and the request translation completes having made exactly one, and one
\* rejected by either completes without any.
C15_AtMostOneCall ==
    /\ Len(calls) <= 1
    /\ pc \notin {"idle", "done"} => Len(calls) = 1
    /\ Completed => (Len(calls) = 1 <=> ~RejectedBeforeCall)
    /\ Completed => (calls = <<>> <=> RejectedBeforeCall)

\* C15 witness: the exchange ended on an upstream error after exactly one
\* call.
C15_Witness ==
    /\ UpstreamFailed
    /\ res.status = 429
    /\ Len(calls) = 1

\* C15 witness: an exchange completed by the authentication gate without a
\* call.
C15_WitnessNoCall ==
    /\ Completed
    /\ res.status = 401
    /\ calls = <<>>

\* ---- C16 ----
\* the five ways an exchange ends
EndedBy401 ==
    /\ authRejected(expectedAnthropicToken, headers)
    /\ res = JsonResponse(401, ErrorPayload(Str("Invalid or missing API key")))
EndedByTranslationError ==
    /\ TranslationFailed
    /\ res = JsonResponse(400, ErrorPayload(Str(azureRequest.error)))
EndedByUpstreamError ==
    /\ calls # <<>> /\ azureData = Undefined
    /\ \E error \in UpstreamErrors :
          LET response == Get(error, "response") IN
          /\ res.status = IF response = Undefined THEN 500
                          ELSE Get(response, "status").n
          /\ res = JsonResponse(res.status, ErrorPayload(upstreamErrorMessage(error)))
EndedByJson ==
    /\ azureData # Undefined
    /\ res = JsonResponse(200, anthropicResponse)
EndedByStream ==
    /\ azureData # Undefined
    /\ res.kind = "sse" /\ res.status = 200 /\ res.json = Undefined /\ res.ended
    /\ res.events # <<>>
    /\ res.events[1].event = "message_start"
    /\ res.events[Len(res.events)].event = "message_stop"
    /\ Count(res.events, LAMBDA e : e.event = "message_stop") = 1

EndingsThatHold ==
    { k \in {"401", "translation", "upstream", "json", "stream"} :
        \/ k = "401" /\ EndedBy401
        \/ k = "translation" /\ EndedByTranslationError
        \/ k = "upstream" /\ EndedByUpstreamError
        \/ k = "json" /\ EndedByJson
        \/ k = "stream" /\ EndedByStream }

OneResponseOfOneKind ==
    /\ Completed => Cardinality(EndingsThatHold) = 1
    /\ ~Completed => (res.kind \in {"none", "sse"} /\ ~res.ended)
    /\ res.kind = "sse" => res.json = Undefined
    /\ (calls # <<>> /\ azureData = Undefined) =>
          (anthropicResponse = Undefined /\ res.events = <<>>)

\* a response once sent is never followed by another, and no JSON body
\* follows SSE events
ResponseKept ==
    /\ res.kind = "json" => res' = res
    /\ res.ended => res' = res
    /\ res.kind = "sse" =>
          (res'.kind = "sse" /\ res'.json = Undefined /\ IsPrefix(res.events, res'.events))

\* how far the handler has come
Stage(p) ==
    CASE p = "idle" -> 0
      [] p = "awaiting" -> 1
      [] p = "message_start" -> 2
      [] p \in {"block_start", "block_delta", "block_stop"} -> 3
      [] p = "message_delta" -> 4
      [] p = "message_stop" -> 5
      [] p = "end" -> 6
      [] p = "done" -> 7

\* every step brings the handler nearer to its end: it reaches a later
\* stage, or writes one more of the block events, of which there are
\* finitely many
Advances ==
    \/ Stage(pc') > Stage(pc)
    \/ /\ Stage(pc') = Stage(pc)
       /\ anthropicResponse' = anthropicResponse
       /\ Len(res'.events) = Len(res.events) + 1
       /\ Len(res'.events) < Len(ExpectedEventNames(anthropicResponse))

\* an exchange that has not completed can take a step: the handler's own
\* next step, or, while it awaits the outbound call, the call's rejection
\* (by the axios timeout at the latest)
NeverStuck ==
    ~Completed =>
        \/ ENABLED PostMessages
        \/ \E error \in UpstreamErrors : ENABLED UpstreamFails(error)
        \/ ENABLED StreamMessageStart
        \/ ENABLED StreamBlockStart
        \/ ENABLED StreamBlockDelta
        \/ ENABLED StreamBlockStop
        \/ ENABLED StreamMessageDelta
        \/ ENABLED StreamMessageStop
        \/ ENABLED StreamEnd

\* C16: every exchange terminates with exactly one response of exactly one
\* kind (401, translation error, upstream error with the upstream status,
\* one JSON ResponseA, or one complete SSE stream ended by message_stop),
\* never with two responses nor a JSON body after SSE events have started;
\* an upstream failure never yields a ResponseA or an SSE event.
C16_OneResponse ==
    /\ [](OneResponseOfOneKind /\ NeverStuck)
    /\ [][ResponseKept /\ Advances]_vars

\* C16 witness: an exchange ended by an upstream failure without a status:
\* one 500 JSON error, no ResponseA, no SSE event.
C16_Witness ==
    /\ Completed
    /\ EndingsThatHold = {"upstream"}
    /\ res.status = 500
    /\ anthropicResponse = Undefined /\ res.events = <<>>

\* C16 witness: an exchange ended by one complete SSE stream.
C16_WitnessStream ==
    /\ Completed
    /\ EndingsThatHold = {"stream"}
    /\ Len(res.events) = 9

====
